---- MODULE Spec2Model ----
(***************************************************************************)
(* State-machine model of the llpm glue utilities:                         *)
(*   - the FastAPI embedding service   (docker/embeddings/src/server.py)   *)
(*   - the standalone embedding CLI    (scripts/embeddings/generate.py)    *)
(*   - the LiteLLM proxy auth callback (docker/litellm-proxy/custom_auth.py)*)
(*                                                                         *)
(* A behaviour follows one of the three programs (prog).  The embedding    *)
(* loop is modelled step by step (range step, tokenizer call, forward      *)
(* pass, pooling + normalisation + extend) so that faults in any step of   *)
(* any sub-batch and the order of the steps are visible.                   *)
(*                                                                         *)
(* Numbers: hidden states are small integer vectors.  A pooled vector is   *)
(* the exact rational sum/cnt; a normalised vector is the exact real       *)
(* vec/sqrt(den2), kept in lowest terms so that equal vectors are equal    *)
(* values.                                                                 *)
(***************************************************************************)
EXTENDS Integers, Sequences, FiniteSets, TLC

VARIABLES
    prog,        \* which program this behaviour runs: "service", "cli", "proxy"
    pc,          \* position inside the running handler / main()
    tokenizer,   \* tokenizer handle: None or "loaded"
    model,       \* model handle: None or "loaded"
    req,         \* service: the EmbeddingRequest being handled
    input_data,  \* cli: the document read from stdin
    texts,       \* local: the input list
    batch_size,  \* local: the batch size
    all_embs,    \* local: rows accumulated so far
    i,           \* local: loop variable of range(0, len(texts), batch_size)
    batch,       \* local: texts[i:i+batch_size]
    inputs,      \* local: tokenizer output of the current sub-batch
    last_hidden, \* local: model output of the current sub-batch
    response,    \* service: the HTTP response of the last handled request
    stdout,      \* cli: the objects printed on stdout
    exit_code,   \* cli: the process exit code (Running while alive)
    auth,        \* proxy: the last callback invocation and its result
    fault,       \* history: the step that raised in this call ("" if none)
    calls,       \* history: external calls made in this call
    emb_src      \* history: for every row of all_embs, the index in texts it was computed from

vars == << prog, pc, tokenizer, model, req, input_data, texts, batch_size,
           all_embs, i, batch, inputs, last_hidden, response, stdout,
           exit_code, auth, fault, calls, emb_src >>

----------------------------------------------------------------------------
(* Bounds and program constants *)

MaxTexts == 3

DefaultBatchSize == 32

MaxLength == 512

None == "None"

MODEL_NAME == "BAAI/bge-base-en-v1.5"

\* exit_code of a process that has not exited.
Running == 0 - 1

\* Input strings, each a sequence of words; "" is the empty sequence.
Texts == { <<>>, <<"a">>, <<"b">>, <<"a", "c">> }

\* Lists of at most n elements of S.
Lists(S, n) == UNION { [1..k -> S] : k \in 0..n }

\* batch_size values: negative, zero, 1 .. MaxTexts+1 and the default.
BatchSizes == ((-1)..(MaxTexts + 1)) \cup {DefaultBatchSize}

Min(a, b) == IF a < b THEN a ELSE b

Max(a, b) == IF a > b THEN a ELSE b

Abs(a) == IF a < 0 THEN -a ELSE a

----------------------------------------------------------------------------
(* Integer vectors *)

RECURSIVE SumTo(_, _)
\* f[1] + ... + f[n]
SumTo(f, n) == IF n = 0 THEN 0 ELSE f[n] + SumTo(f, n - 1)

Dot(u, v) == SumTo([k \in 1..Len(u) |-> u[k] * v[k]], Len(u))

RECURSIVE Gcd(_, _)
Gcd(a, b) == IF b = 0 THEN a ELSE Gcd(b, a % b)

RECURSIVE GcdTo(_, _)
\* gcd(|v[1]|, ..., |v[n]|)
GcdTo(v, n) == IF n = 0 THEN 0 ELSE Gcd(Abs(v[n]), GcdTo(v, n - 1))

\* Sum over the positions p of the vectors rows[p] scaled by w[p].
WeightedSum(rows, w) ==
    [d \in 1..Len(rows[1]) |-> SumTo([p \in 1..Len(rows) |-> rows[p][d] * w[p]], Len(rows))]

----------------------------------------------------------------------------
(* The tokenizer and the model: the calls the pipeline makes *)

\* truncation=True, max_length=512: the encoded sequence ([CLS] words [SEP])
\* holds at most MaxLength tokens.
Encode(text) ==
    <<"[CLS]">> \o SubSeq(text, 1, Min(Len(text), MaxLength - 2)) \o <<"[SEP]">>

RECURSIVE LongestTo(_, _)
LongestTo(b, n) == IF n = 0 THEN 0 ELSE Max(Len(Encode(b[n])), LongestTo(b, n - 1))

\* tokenizer(batch, padding=True, truncation=True, max_length=512,
\* return_tensors="pt"): every row padded to the longest row of the
\* sub-batch; attention_mask is 1 on real tokens and 0 on padding.
TokenizerCall(b) ==
    LET T == LongestTo(b, Len(b)) IN
    [ input_ids |->
        [r \in 1..Len(b) |->
            [p \in 1..T |-> IF p <= Len(Encode(b[r])) THEN Encode(b[r])[p] ELSE "[PAD]"]],
      attention_mask |->
        [r \in 1..Len(b) |->
            [p \in 1..T |-> IF p <= Len(Encode(b[r])) THEN 1 ELSE 0]] ]

\* The final-layer representation of a real token.  The weights belong to the
\* loaded model, not to this repository; these values give the texts distinct
\* pooled directions and let one text ("b") pool to the zero vector.
TokenVec(tok) ==
    CASE tok = "[CLS]" -> <<1, 1>>
      [] tok = "[SEP]" -> <<1, 0>>
      [] tok = "a"     -> <<0, 1>>
      [] tok = "b"     -> <<-2, -1>>
      [] tok = "c"     -> <<1, -1>>
      [] OTHER         -> <<0, 0>>

\* What the model may leave at a padding position of one forward pass.
PadHidden == { <<5, -3>>, <<0, 7>> }

\* model(**inputs, return_dict=True).last_hidden_state, shape (B, T, D).
\* Real positions do not depend on the padding; padding positions hold g.
ModelCall(inp, g) ==
    [r \in 1..Len(inp.input_ids) |->
        [p \in 1..Len(inp.input_ids[r]) |->
            IF inp.attention_mask[r][p] = 1 THEN TokenVec(inp.input_ids[r][p]) ELSE g]]

----------------------------------------------------------------------------
(* Mean pooling and L2 normalisation *)

\* Pooling that ignores the attention mask: the plain mean over all T positions.
UnmaskedMeanPool(hidden, inp) ==
    [r \in 1..Len(hidden) |->
        [ sum |-> WeightedSum(hidden[r], [p \in 1..Len(hidden[r]) |-> 1]),
          cnt |-> Len(hidden[r]) ]]

\* mask = inputs.get("attention_mask"); masked mean when present, else
\* last_hidden.mean(dim=1).  Row r of the result is the rational vector
\* sum/cnt.  counts.clamp(min=1e-9): a count of 0 is replaced by a positive
\* number; the numerator is then the zero vector, so any positive
\* denominator gives the same quotient and 1 stands for it.
MeanPool(hidden, inp) ==
    IF "attention_mask" \in DOMAIN inp
    THEN [r \in 1..Len(hidden) |->
            LET mask   == inp.attention_mask[r]
                summed == WeightedSum(hidden[r], mask)
                counts == SumTo(mask, Len(mask))
            IN  [ sum |-> summed, cnt |-> IF counts = 0 THEN 1 ELSE counts ]]
    ELSE [r \in 1..Len(hidden) |->
            [ sum |-> WeightedSum(hidden[r], [p \in 1..Len(hidden[r]) |-> 1]),
              cnt |-> Len(hidden[r]) ]]

\* No normalisation at all: the pooled vector sum/cnt = sum/sqrt(cnt^2).
NoNormalize(pooled) ==
    [r \in 1..Len(pooled) |->
        [ vec |-> pooled[r].sum, den2 |-> pooled[r].cnt * pooled[r].cnt ]]

\* F.normalize(emb, p=2, dim=1) = v / max(||v||, 1e-12) per row.
\* For v = sum/cnt with sum # 0, ||v|| >= 1/cnt > 1e-12 and the result is
\* sum/sqrt(sum.sum), written vec/sqrt(den2) in lowest terms.  For sum = 0
\* the result is 0/1e-12, the zero vector.
Normalize(pooled) ==
    [r \in 1..Len(pooled) |->
        LET s == pooled[r].sum
            g == GcdTo(s, Len(s))
        IN  IF Dot(s, s) = 0
            THEN [ vec |-> s, den2 |-> 1 ]
            ELSE LET v == [d \in 1..Len(s) |-> s[d] \div g]
                 IN  [ vec |-> v, den2 |-> Dot(v, v) ]]

\* The squared L2 norm of a returned row is Dot(vec, vec) / den2.
HasUnitNorm(row) == Dot(row.vec, row.vec) = row.den2

IsZeroVector(row) == \A d \in 1..Len(row.vec) : row.vec[d] = 0

----------------------------------------------------------------------------
(* Responses *)

NoResponse ==
    [ status |-> 0, error |-> "", has_embeddings |-> FALSE,
      embeddings |-> <<>>, model |-> "", dimension |-> 0 ]

\* raise HTTPException(status_code=..., detail=...): no embeddings in the body.
HTTPException(status_code, detail) ==
    [ status |-> status_code, error |-> detail, has_embeddings |-> FALSE,
      embeddings |-> <<>>, model |-> "", dimension |-> 0 ]

\* {"embeddings": ..., "model": MODEL_NAME,
\*  "dimension": len(embeddings[0]) if embeddings else 0}
SuccessObject(embs) ==
    [ status |-> 200, error |-> "", has_embeddings |-> TRUE,
      embeddings |-> embs, model |-> MODEL_NAME,
      dimension |-> IF embs # <<>> THEN Len(embs[1].vec) ELSE 0 ]

\* {"error": ..., "embeddings": None}
ErrorObject(msg) ==
    [ status |-> 0, error |-> msg, has_embeddings |-> FALSE,
      embeddings |-> <<>>, model |-> "", dimension |-> 0 ]

NoCalls == [ load_model |-> 0, tokenizer |-> 0, model |-> 0 ]

NoInputs == [ input_ids |-> <<>>, attention_mask |-> <<>> ]

NoRequest == [ input |-> <<>>, batch_size |-> DefaultBatchSize ]

NoDocument == [ json |-> "none", input_kind |-> "absent", input |-> <<>>,
                has_batch_size |-> FALSE, batch_size |-> 0 ]

NoAuth == [ path |-> <<>>, api_key |-> "", master_key |-> "", called |-> FALSE,
            returned |-> None, user_id |-> "", user_role |-> "" ]

----------------------------------------------------------------------------
(* Initial state *)

\* server.py 46-47: tokenizer = None, model = None at import; the CLI and the
\* callback hold nothing before they run.
Init ==
    /\ prog \in {"service", "cli", "proxy"}
    /\ pc = IF prog = "cli" THEN "import" ELSE "idle"
    /\ tokenizer = None
    /\ model = None
    /\ req = NoRequest
    /\ input_data = NoDocument
    /\ texts = <<>>
    /\ batch_size = DefaultBatchSize
    /\ all_embs = <<>>
    /\ i = 0
    /\ batch = <<>>
    /\ inputs = NoInputs
    /\ last_hidden = <<>>
    /\ response = NoResponse
    /\ stdout = <<>>
    /\ exit_code = Running
    /\ auth = NoAuth
    /\ fault = ""
    /\ calls = NoCalls
    /\ emb_src = <<>>

----------------------------------------------------------------------------
(* The batching loop, shared text of server.py 93-133 and generate.py 59-94 *)

\* A slice that runs one element too far.
WideSlice(t, start, size) == SubSeq(t, start + 1, Min(start + size + 1, Len(t)))

\* texts[i:i+batch_size] for i >= 0 and batch_size > 0 (0-based i).
Slice(t, start, size) == SubSeq(t, start + 1, Min(start + size, Len(t)))

locals == << texts, batch_size, all_embs, i, batch, inputs, last_hidden, emb_src >>

\* for i in range(0, len(texts), batch_size): the first value.
\* range() raises ValueError for a step of 0; for a negative step and
\* 0 < len(texts) the range is empty.
RangeFirst ==
    /\ pc = "loop"
    /\ IF batch_size = 0
       THEN /\ fault' = "range"
            /\ pc' = "except"
            /\ UNCHANGED << i, batch >>
       ELSE IF batch_size > 0 /\ 0 < Len(texts)
       THEN /\ i' = 0
            /\ batch' = Slice(texts, 0, batch_size)
            /\ pc' = "tokenize"
            /\ UNCHANGED fault
       ELSE /\ pc' = "return"
            /\ UNCHANGED << i, batch, fault >>
    /\ UNCHANGED << texts, batch_size, all_embs, inputs, last_hidden, emb_src, calls >>

\* inputs = tokenizer(batch, ...): returns the padded sub-batch or raises.
Tokenize ==
    /\ pc = "tokenize"
    /\ calls' = [calls EXCEPT !.tokenizer = 1]
    /\ \E ok \in BOOLEAN :
         IF ok
         THEN /\ inputs' = TokenizerCall(batch)
              /\ pc' = "forward"
              /\ UNCHANGED fault
         ELSE /\ fault' = "tokenize"
              /\ pc' = "except"
              /\ UNCHANGED inputs
    /\ UNCHANGED << texts, batch_size, all_embs, i, batch, last_hidden, emb_src >>

\* outputs = model(**inputs, return_dict=True): returns the hidden states or
\* raises (out of memory, device fault).
Forward ==
    /\ pc = "forward"
    /\ calls' = [calls EXCEPT !.model = 1]
    /\ \E ok \in BOOLEAN :
         IF ok
         THEN /\ \E g \in PadHidden : last_hidden' = ModelCall(inputs, g)
              /\ pc' = "pool"
              /\ UNCHANGED fault
         ELSE /\ fault' = "forward"
              /\ pc' = "except"
              /\ UNCHANGED last_hidden
    /\ UNCHANGED << texts, batch_size, all_embs, i, batch, inputs, emb_src >>

\* A range that stops one value early when the last sub-batch is short.
RangeStopsEarly(n, start, step) == start + step + step <= n

\* The next value of range(0, len(texts), batch_size) after i, if any.
RangeHasNext(n, start, step) == start + step < n

\* Pooling, normalisation, all_embs.extend(emb.cpu().tolist()), then the next
\* iteration of the for loop (or its end).  The tensor arithmetic may raise.
PoolAndExtend ==
    /\ pc = "pool"
    /\ \E ok \in BOOLEAN :
         IF ok
         THEN /\ all_embs' = all_embs \o Normalize(MeanPool(last_hidden, inputs))
              /\ emb_src' = emb_src \o [r \in 1..Len(batch) |-> i + r]
              /\ IF RangeHasNext(Len(texts), i, batch_size)
                 THEN /\ i' = i + batch_size
                      /\ batch' = Slice(texts, i + batch_size, batch_size)
                      /\ pc' = "tokenize"
                 ELSE /\ pc' = "return"
                      /\ UNCHANGED << i, batch >>
              /\ UNCHANGED fault
         ELSE /\ fault' = "pool"
              /\ pc' = "except"
              /\ UNCHANGED << all_embs, emb_src, i, batch >>
    /\ UNCHANGED << texts, batch_size, inputs, last_hidden, calls >>

----------------------------------------------------------------------------
(* The embedding service: docker/embeddings/src/server.py *)

Requests == [ input : Lists(Texts, MaxTexts), batch_size : BatchSizes ]

\* @app.on_event("startup") load_model: assigns the global tokenizer, then the
\* global model, then moves the model to the device; any step may raise and
\* the exception is re-raised, leaving the globals as assigned so far.
SvcLoadModel ==
    /\ prog = "service"
    /\ pc = "idle"
    /\ model = None
    /\ \E outcome \in {"ok", "tokenizer_failed", "model_failed", "device_failed"} :
         /\ tokenizer' = IF outcome = "tokenizer_failed" THEN None ELSE "loaded"
         /\ model' = IF outcome \in {"tokenizer_failed", "model_failed"}
                     THEN None ELSE "loaded"
    /\ UNCHANGED << prog, pc, req, input_data, locals, response, stdout,
                    exit_code, auth, fault, calls >>

\* The guard that lets a half-loaded service through.
BothNotLoaded == model = None /\ tokenizer = None

\* if model is None or tokenizer is None
ModelNotLoaded == model = None \/ tokenizer = None

\* The input check inverted to never reject.
NeverEmpty(t) == FALSE

\* if not texts
SvcInputIsEmpty(t) == t = <<>>

\* POST /embeddings, lines 82-90: the two guards and the locals' set-up.
\* The handler runs whenever a request arrives, also when the startup hook
\* has not run or has failed (an ASGI server may run the app without its
\* lifespan events), which is what the first guard is for.
SvcRequest ==
    /\ prog = "service"
    /\ pc = "idle"
    /\ \E r \in Requests :
         /\ req' = r
         /\ IF ModelNotLoaded
            THEN /\ response' = HTTPException(503, "Model not loaded")
                 /\ texts' = <<>>
                 /\ batch_size' = DefaultBatchSize
                 /\ pc' = "responded"
            ELSE IF SvcInputIsEmpty(r.input)
            THEN /\ response' = HTTPException(400, "Input cannot be empty")
                 /\ texts' = r.input
                 /\ batch_size' = DefaultBatchSize
                 /\ pc' = "responded"
            ELSE /\ response' = NoResponse
                 /\ texts' = r.input
                 /\ batch_size' = r.batch_size
                 /\ pc' = "loop"
    /\ all_embs' = <<>>
    /\ i' = 0
    /\ batch' = <<>>
    /\ inputs' = NoInputs
    /\ last_hidden' = <<>>
    /\ emb_src' = <<>>
    /\ fault' = ""
    /\ calls' = NoCalls
    /\ UNCHANGED << prog, tokenizer, model, input_data, stdout, exit_code, auth >>

svc_rest == << prog, tokenizer, model, req, input_data, response, stdout, exit_code, auth >>

SvcRangeFirst == prog = "service" /\ RangeFirst /\ UNCHANGED svc_rest

SvcTokenize == prog = "service" /\ Tokenize /\ UNCHANGED svc_rest

SvcForward == prog = "service" /\ Forward /\ UNCHANGED svc_rest

SvcPoolAndExtend == prog = "service" /\ PoolAndExtend /\ UNCHANGED svc_rest

\* An exception handler that hands back what was computed before the fault.
SvcExceptPartial ==
    /\ prog = "service"
    /\ pc = "except"
    /\ response' = SuccessObject(all_embs)
    /\ pc' = "responded"
    /\ UNCHANGED << prog, tokenizer, model, req, input_data, locals, stdout,
                    exit_code, auth, fault, calls >>

\* lines 135-142: return {"embeddings": all_embs, "model": ..., "dimension": ...}
SvcReturn ==
    /\ prog = "service"
    /\ pc = "return"
    /\ response' = SuccessObject(all_embs)
    /\ pc' = "responded"
    /\ UNCHANGED << prog, tokenizer, model, req, input_data, locals, stdout,
                    exit_code, auth, fault, calls >>

\* lines 144-146: except Exception as e: raise HTTPException(500, str(e))
SvcExcept ==
    /\ prog = "service"
    /\ pc = "except"
    /\ response' = HTTPException(500, fault)
    /\ pc' = "responded"
    /\ UNCHANGED << prog, tokenizer, model, req, input_data, locals, stdout,
                    exit_code, auth, fault, calls >>

------------------------------------------------------------------------\* The response has been sent and the handler's frame is gone: the service
\* waits for the next request.  Only the globals outlive the call.
SvcDone ==
    /\ prog = "service"
    /\ pc = "responded"
    /\ pc' = "idle"
    /\ req' = NoRequest
    /\ response' = NoResponse
    /\ texts' = <<>>
    /\ batch_size' = DefaultBatchSize
    /\ all_embs' = <<>>
    /\ i' = 0
    /\ batch' = <<>>
    /\ inputs' = NoInputs
    /\ last_hidden' = <<>>
    /\ emb_src' = <<>>
    /\ fault' = ""
    /\ calls' = NoCalls
    /\ UNCHANGED << prog, tokenizer, model, input_data, stdout, exit_code, auth >>

----------------------------------------------------------------------------
(* The standalone tool: scripts/embeddings/generate.py *)

\* What json.load(sys.stdin) may meet: text that is not JSON, a JSON value
\* that is not an object, or an object whose "input" is absent, a list or a
\* non-empty string, with or without "batch_size".
StdinDocs ==
    { [ json |-> j, input_kind |-> "absent", input |-> <<>>,
        has_batch_size |-> FALSE, batch_size |-> 0 ] : j \in {"invalid", "array", "object"} }
    \cup
    { [ json |-> "object", input_kind |-> "string", input |-> <<>>,
        has_batch_size |-> FALSE, batch_size |-> 0 ] }
    \cup
    { [ json |-> "object", input_kind |-> "list", input |-> l,
        has_batch_size |-> FALSE, batch_size |-> 0 ] : l \in Lists(Texts, MaxTexts) }
    \cup
    { [ json |-> "object", input_kind |-> "list", input |-> l,
        has_batch_size |-> TRUE, batch_size |-> b ] :
            l \in Lists(Texts, MaxTexts), b \in BatchSizes \ {DefaultBatchSize} }

cli_out == << stdout, exit_code >>

\* print(json.dumps({"error": msg, "embeddings": None})); sys.exit(1)
PrintErrorAndExit(msg) ==
    /\ stdout' = Append(stdout, ErrorObject(msg))
    /\ exit_code' = 1
    /\ pc' = "exited"

\* lines 17-26: the imports, and the error object when they fail.
CliImport ==
    /\ prog = "cli"
    /\ pc = "import"
    /\ \E ok \in BOOLEAN :
         IF ok
         THEN pc' = "read" /\ UNCHANGED cli_out
         ELSE PrintErrorAndExit("Required packages not installed")
    /\ UNCHANGED << prog, tokenizer, model, req, input_data, locals, response,
                    auth, fault, calls >>

\* lines 101-108: json.load(sys.stdin), JSONDecodeError handled.
CliReadStdin ==
    /\ prog = "cli"
    /\ pc = "read"
    /\ \E doc \in StdinDocs :
         /\ input_data' = doc
         /\ IF doc.json = "invalid"
            THEN PrintErrorAndExit("Invalid JSON input")
            ELSE pc' = "extract" /\ UNCHANGED cli_out
    /\ UNCHANGED << prog, tokenizer, model, req, locals, response, auth, fault, calls >>

\* input_data.get("input", [])
GetInput(doc) == IF doc.input_kind = "list" THEN doc.input ELSE <<>>

\* if not texts or not isinstance(texts, list)
CliInputIsBad(doc) == GetInput(doc) = <<>> \/ doc.input_kind # "list"

\* lines 111-119.  input_data.get raises AttributeError when the document is
\* not an object; nothing catches it, so the interpreter prints a traceback
\* on stderr and exits with code 1.
CliExtractTexts ==
    /\ prog = "cli"
    /\ pc = "extract"
    /\ IF input_data.json # "object"
       THEN /\ fault' = "AttributeError"
            /\ exit_code' = 1
            /\ pc' = "exited"
            /\ UNCHANGED << stdout, texts, batch_size >>
       ELSE IF CliInputIsBad(input_data)
       THEN /\ PrintErrorAndExit("Input must contain 'input' array of strings")
            /\ UNCHANGED << fault, texts, batch_size >>
       ELSE /\ texts' = GetInput(input_data)
            /\ batch_size' = IF input_data.has_batch_size
                             THEN input_data.batch_size ELSE DefaultBatchSize
            /\ pc' = "load"
            /\ UNCHANGED << fault, cli_out >>
    /\ UNCHANGED << prog, tokenizer, model, req, input_data, all_embs, i, batch,
                    inputs, last_hidden, emb_src, response, auth, calls >>

\* lines 30-53 and 122: load_model() returns the handles, or prints the error
\* object and exits 1.
CliLoadModel ==
    /\ prog = "cli"
    /\ pc = "load"
    /\ calls' = [calls EXCEPT !.load_model = 1]
    /\ \E ok \in BOOLEAN :
         IF ok
         THEN /\ tokenizer' = "loaded"
              /\ model' = "loaded"
              /\ pc' = "loop"
              /\ UNCHANGED cli_out
         ELSE /\ PrintErrorAndExit("Failed to load model")
              /\ UNCHANGED << tokenizer, model >>
    /\ UNCHANGED << prog, req, input_data, locals, response, auth, fault >>

cli_rest == << prog, tokenizer, model, req, input_data, response, stdout, exit_code, auth >>

CliRangeFirst == prog = "cli" /\ RangeFirst /\ UNCHANGED cli_rest

CliTokenize == prog = "cli" /\ Tokenize /\ UNCHANGED cli_rest

CliForward == prog = "cli" /\ Forward /\ UNCHANGED cli_rest

CliPoolAndExtend == prog = "cli" /\ PoolAndExtend /\ UNCHANGED cli_rest

\* lines 128-134: print the result object; main() returns and the process
\* exits 0.
CliOutput ==
    /\ prog = "cli"
    /\ pc = "return"
    /\ stdout' = Append(stdout, SuccessObject(all_embs))
    /\ exit_code' = 0
    /\ pc' = "exited"
    /\ UNCHANGED << prog, tokenizer, model, req, input_data, locals, response,
                    auth, fault, calls >>

\* lines 136-141: except Exception as e: print the error object, sys.exit(1)
CliExcept ==
    /\ prog = "cli"
    /\ pc = "except"
    /\ PrintErrorAndExit("Failed to generate embeddings")
    /\ UNCHANGED << prog, tokenizer, model, req, input_data, locals, response,
                    auth, fault, calls >>

----------------------------------------------------------------------------
(* The proxy auth callback: docker/litellm-proxy/custom_auth.py *)

\* Request paths, one character per element.
Paths ==
    { <<"/">>,
      <<"/", "u", "i">>,
      <<"/", "v", "1">>,
      <<"/", "c", "l", "a", "u">>,
      <<"/", "c", "l", "a", "u", "d", "e">>,
      <<"/", "c", "l", "a", "u", "d", "e", "/", "v", "1">>,
      <<"/", "c", "l", "a", "u", "d", "e", "x">>,
      <<"/", "c", "o", "d", "e", "x">>,
      <<"/", "a", "n", "t", "h", "r", "o", "p", "i", "c">>,
      <<"/", "o", "p", "e", "n", "a", "i", "/", "v", "1">>,
      <<"/", "v", "1", "/", "c", "l", "a", "u", "d", "e">> }

\* passthrough_paths = ['/claude', '/codex', '/anthropic', '/openai']
passthrough_paths ==
    { <<"/", "c", "l", "a", "u", "d", "e">>,
      <<"/", "c", "o", "d", "e", "x">>,
      <<"/", "a", "n", "t", "h", "r", "o", "p", "i", "c">>,
      <<"/", "o", "p", "e", "n", "a", "i">> }

ApiKeys == { "", "sk-1234", "sk-master", "sk-ant-client" }

\* LITELLM_MASTER_KEY in the environment: unset (None), or set.
MasterKeyEnv == { None, "sk-master", "" }

\* A prefix test that asks for the whole path.
IsExactly(path, p) == path = p

\* path.startswith(p)
StartsWith(path, p) == Len(p) <= Len(path) /\ SubSeq(path, 1, Len(p)) = p

\* any(path.startswith(p) for p in passthrough_paths)
IsPassthrough(path) == \E p \in passthrough_paths : StartsWith(path, p)

\* os.getenv("LITELLM_MASTER_KEY", "sk-1234")
GetMasterKey(env) == IF env = None THEN "sk-1234" ELSE env

\* lines 39-61: the decision.
user_api_key_auth ==
    /\ prog = "proxy"
    /\ pc = "idle"
    /\ \E path \in Paths, api_key \in ApiKeys, env \in MasterKeyEnv :
         LET master_key == GetMasterKey(env) IN
         auth' = IF IsPassthrough(path)
                 THEN [ path |-> path, api_key |-> api_key, master_key |-> master_key,
                        called |-> TRUE, returned |-> "UserAPIKeyAuth",
                        user_id |-> "passthrough-user", user_role |-> "internal_user" ]
                 ELSE IF api_key = master_key
                 THEN [ path |-> path, api_key |-> api_key, master_key |-> master_key,
                        called |-> TRUE, returned |-> "UserAPIKeyAuth",
                        user_id |-> "admin", user_role |-> "proxy_admin" ]
                 ELSE [ path |-> path, api_key |-> api_key, master_key |-> master_key,
                        called |-> TRUE, returned |-> None,
                        user_id |-> "", user_role |-> "" ]
    /\ UNCHANGED << prog, pc, tokenizer, model, req, input_data, locals, response,
                    stdout, exit_code, fault, calls >>

----------------------------------------------------------------------------
(* Specification *)

Next ==
    \/ SvcLoadModel
    \/ SvcRequest
    \/ SvcRangeFirst
    \/ SvcTokenize
    \/ SvcForward
    \/ SvcPoolAndExtend
    \/ SvcReturn
    \/ SvcExcept
    \/ SvcDone
    \/ CliImport
    \/ CliReadStdin
    \/ CliExtractTexts
    \/ CliLoadModel
    \/ CliRangeFirst
    \/ CliTokenize
    \/ CliForward
    \/ CliPoolAndExtend
    \/ CliOutput
    \/ CliExcept
    \/ user_api_key_auth

Spec == Init /\ [][Next]_vars

----------------------------------------------------------------------------
(* Vocabulary of the properties *)

SvcFinished == prog = "service" /\ pc = "responded"

CliFinished == prog = "cli" /\ pc = "exited"

Finished == SvcFinished \/ CliFinished

\* The input list and batch size the caller passed.
CallInput == IF prog = "service" THEN req.input ELSE GetInput(input_data)

CallBatchSize ==
    IF prog = "service" THEN req.batch_size
    ELSE IF input_data.has_batch_size THEN input_data.batch_size ELSE DefaultBatchSize

\* What the caller received: the HTTP response, or the last object on stdout.
Received ==
    IF prog = "service" THEN response
    ELSE IF stdout # <<>> THEN stdout[Len(stdout)] ELSE NoResponse

Succeeded ==
    \/ SvcFinished /\ response.status = 200
    \/ CliFinished /\ exit_code = 0 /\ Received.has_embeddings

InLoopBody == pc \in {"tokenize", "forward", "pool"}

\* The normalised rows of one sub-batch b when the padding positions hold g.
EmbedBatch(b, g) == Normalize(MeanPool(ModelCall(TokenizerCall(b), g), TokenizerCall(b)))

\* The pooled (not yet normalised) vector of a text embedded on its own.
PooledAlone(t, g) == MeanPool(ModelCall(TokenizerCall(<<t>>), g), TokenizerCall(<<t>>))[1]

\* path begins with p, character by character.
HasPrefix(path, p) ==
    Len(p) <= Len(path) /\ \A k \in 1..Len(p) : path[k] = p[k]

OnPassthroughPath(path) == \E p \in passthrough_paths : HasPrefix(path, p)

----------------------------------------------------------------------------
(* C1 *)

\* C1: a successful run on a non-empty list of N texts with a positive
\* batch_size returns exactly N vectors, and the vector at index j was
\* computed from texts[j]: nothing is skipped, duplicated or reordered.
C1_OutputMatchesInput ==
    (Succeeded /\ CallInput # <<>> /\ CallBatchSize > 0)
        => /\ Len(Received.embeddings) = Len(CallInput)
           /\ Len(emb_src) = Len(Received.embeddings)
           /\ \A j \in 1..Len(emb_src) :
                /\ emb_src[j] = j
                /\ \E g \in PadHidden :
                     Received.embeddings[j] = EmbedBatch(<<CallInput[emb_src[j]]>>, g)[1]

C1_Witness ==
    /\ Succeeded
    /\ prog = "cli"
    /\ Len(CallInput) = 3
    /\ CallBatchSize = 2
    /\ Len(Received.embeddings) = 3

----------------------------------------------------------------------------
(* C2 *)

\* C2: all-or-nothing per call: when the tokenizer, the forward pass or the
\* pooling raises in any sub-batch, the caller receives only a failure (HTTP
\* 500; an error object with embeddings null and a non-zero exit code) and
\* none of the vectors computed for earlier sub-batches.
C2_AllOrNothing ==
    (Finished /\ fault \in {"tokenize", "forward", "pool"})
        => /\ ~Received.has_embeddings
           /\ Received.embeddings = <<>>
           /\ Received.error # ""
           /\ prog = "service" => response.status = 500
           /\ prog = "cli" => (exit_code > 0 /\ Len(stdout) = 1)

C2_Witness ==
    /\ SvcFinished
    /\ fault = "forward"
    /\ Len(all_embs) >= 1
    /\ i > 0
    /\ i + Len(batch) < Len(texts)
    /\ response.status = 500

----------------------------------------------------------------------------
(* C3 *)

\* C3 (as claimed): a call with an empty input list is rejected with an
\* input error and the model and tokenizer are never invoked: the service
\* answers HTTP 400, the CLI prints an error object and exits non-zero before
\* load_model is called.
C3_EmptyInputRejected400 ==
    (Finished /\ CallInput = <<>>
        /\ (prog = "cli" => (input_data.json = "object" /\ input_data.input_kind \in {"list", "absent"})))
        => /\ calls.tokenizer = 0
           /\ calls.model = 0
           /\ prog = "service" => response.status = 400
           /\ prog = "cli" => /\ exit_code > 0
                              /\ Len(stdout) = 1
                              /\ stdout[1].error # ""
                              /\ ~stdout[1].has_embeddings
                              /\ calls.load_model = 0

\* C3 (amended): as claimed, except that the service checks the model first:
\* an empty-input request is answered HTTP 400 when model and tokenizer are
\* loaded and HTTP 503 when either is not; in both cases, and in the CLI,
\* neither the tokenizer nor the model is invoked.
C3_EmptyInputRejected ==
    (Finished /\ CallInput = <<>>
        /\ (prog = "cli" => (input_data.json = "object" /\ input_data.input_kind \in {"list", "absent"})))
        => /\ calls.tokenizer = 0
           /\ calls.model = 0
           /\ prog = "service" =>
                response.status = IF model = None \/ tokenizer = None THEN 503 ELSE 400
           /\ prog = "cli" => /\ exit_code > 0
                              /\ Len(stdout) = 1
                              /\ stdout[1].error # ""
                              /\ ~stdout[1].has_embeddings
                              /\ calls.load_model = 0

C3_Witness ==
    /\ SvcFinished
    /\ req.input = <<>>
    /\ model # None
    /\ tokenizer # None
    /\ response.status = 400

----------------------------------------------------------------------------
(* C4 *)

\* C4: every run of the standalone tool ends either with one success object
\* on stdout and exit code 0, or with one error object (string error,
\* embeddings null) on stdout and a non-zero exit code.
C4_StructuredOutcome ==
    CliFinished
        => /\ Len(stdout) = 1
           /\ \/ stdout[1].has_embeddings /\ stdout[1].error = "" /\ exit_code = 0
              \/ ~stdout[1].has_embeddings /\ stdout[1].error # "" /\ exit_code > 0

----------------------------------------------------------------------------
(* C5 *)

\* C5: a request with a non-empty input list and a batch_size of zero or
\* below is rejected as an input error before any sub-batch is tokenized and
\* is never answered with a success response.
C5_NonPositiveBatchSizeRejected ==
    (Finished /\ CallInput # <<>> /\ CallBatchSize <= 0
        /\ (prog = "service" => response.status # 503)
        /\ (prog = "cli" => calls.load_model = 1 /\ model # None))
        => /\ ~Succeeded
           /\ ~Received.has_embeddings
           /\ calls.tokenizer = 0
           /\ prog = "service" => response.status = 400
           /\ prog = "cli" => /\ exit_code > 0
                              /\ Received.error = "Input must contain 'input' array of strings"

----------------------------------------------------------------------------
(* C6 *)

\* C6: in the service, a request handled while the model or the tokenizer is
\* not loaded is answered HTTP 503 before any tokenization or forward pass,
\* whatever its input and batch_size; the tokenizer and the model are only
\* called while both are set.
C6_ModelUnavailable ==
    prog = "service"
        => /\ (pc \in {"loop", "tokenize", "forward", "pool", "return", "except"}
                 \/ calls.tokenizer = 1 \/ calls.model = 1)
                => (model # None /\ tokenizer # None)
           /\ (pc = "responded" /\ (model = None \/ tokenizer = None))
                => (response.status = 503 /\ calls = NoCalls /\ all_embs = <<>>)

C6_Witness ==
    /\ SvcFinished
    /\ tokenizer # None
    /\ model = None
    /\ req.input # <<>>
    /\ req.batch_size = 0
    /\ response.status = 503

----------------------------------------------------------------------------
(* C7 *)

\* C7: batching invariance: on success with any positive batch_size the
\* vector returned for each text is the vector that text gets in a sub-batch
\* of its own (batch_size 1) and the one it gets when the whole list is one
\* sub-batch (batch_size len(texts)), whatever the padding positions hold.
C7_BatchingInvariance ==
    (Succeeded /\ CallInput # <<>> /\ CallBatchSize > 0)
        => \A g \in PadHidden :
             /\ Len(Received.embeddings) = Len(CallInput)
             /\ \A j \in 1..Len(CallInput) :
                    Received.embeddings[j] = EmbedBatch(<<CallInput[j]>>, g)[1]
             /\ Received.embeddings = EmbedBatch(CallInput, g)

C7_Witness ==
    /\ Succeeded
    /\ prog = "service"
    /\ req.batch_size = 2
    /\ Len(req.input) = 3
    /\ LET mask == TokenizerCall(SubSeq(req.input, 1, 2)).attention_mask IN
         \E r \in 1..Len(mask) : \E p \in 1..Len(mask[r]) : mask[r][p] = 0

----------------------------------------------------------------------------
(* C8 *)

\* C8 (as claimed): every vector of a successful response has L2 norm 1,
\* also when the pooled vector before normalisation is the zero vector.
C8_AllUnitNorm ==
    Succeeded => \A j \in 1..Len(Received.embeddings) : HasUnitNorm(Received.embeddings[j])

\* C8 (amended): every vector of a successful response whose pooled vector
\* has a norm of at least 1e-12 (here: is not the zero vector, the hidden
\* states being integers and the counts at most 512) has L2 norm 1; a zero
\* pooled vector is returned as the zero vector, of norm 0.
C8_UnitNormUnlessZero ==
    (Succeeded /\ CallBatchSize > 0)
        => /\ Len(Received.embeddings) = Len(CallInput)
           /\ \A j \in 1..Len(Received.embeddings), g \in PadHidden :
                LET pooled == PooledAlone(CallInput[j], g) IN
                IF Dot(pooled.sum, pooled.sum) = 0
                THEN IsZeroVector(Received.embeddings[j])
                ELSE HasUnitNorm(Received.embeddings[j])

C8_Witness ==
    /\ Succeeded
    /\ Len(Received.embeddings) = 2
    /\ IsZeroVector(Received.embeddings[1])
    /\ HasUnitNorm(Received.embeddings[2])
    /\ Received.embeddings[2].den2 > 1

----------------------------------------------------------------------------
(* C9 *)

\* C9: the callback grants proxy_admin only off the passthrough prefixes and
\* only to the master key; on a passthrough prefix every api_key, the master
\* key and the empty one included, is accepted as passthrough-user with role
\* internal_user; elsewhere a key other than the master key gets None.
C9_AuthDecision ==
    auth.called
        => LET pt == OnPassthroughPath(auth.path) IN
           /\ auth.user_role = "proxy_admin" <=> (~pt /\ auth.api_key = auth.master_key)
           /\ pt => /\ auth.returned = "UserAPIKeyAuth"
                    /\ auth.user_id = "passthrough-user"
                    /\ auth.user_role = "internal_user"
           /\ (~pt /\ auth.api_key # auth.master_key) => auth.returned = None

C9_Witness ==
    /\ auth.called
    /\ OnPassthroughPath(auth.path)
    /\ Len(auth.path) > 7
    /\ auth.api_key = auth.master_key
    /\ auth.user_role = "internal_user"

----------------------------------------------------------------------------
(* C10 *)

\* C10: sub-batches are the contiguous slices texts[i:i+batch_size] for
\* i = 0, batch_size, 2*batch_size, ..., each of at most batch_size texts and
\* only the last one shorter; a sub-batch is tokenized only after the rows of
\* all earlier sub-batches have been appended, and the tokenizer output and
\* hidden states in flight belong to that one sub-batch.
C10_SequentialSubBatches ==
    InLoopBody
        => /\ batch_size > 0
           /\ i % batch_size = 0
           /\ i < Len(texts)
           /\ Len(batch) = Min(batch_size, Len(texts) - i)
           /\ \A k \in 1..Len(batch) : batch[k] = texts[i + k]
           /\ (Len(batch) < batch_size) => (i + Len(batch) = Len(texts))
           /\ Len(all_embs) = i
           /\ \A j \in 1..Len(emb_src) : emb_src[j] = j
           /\ pc \in {"forward", "pool"} => Len(inputs.input_ids) = Len(batch)
           /\ pc = "pool" => Len(last_hidden) = Len(batch)

C10_Witness ==
    /\ pc = "tokenize"
    /\ batch_size = 2
    /\ i = 2
    /\ Len(texts) = 3
    /\ Len(batch) = 1
    /\ Len(all_embs) = 2

====
